---- MODULE Spec2Model ----
(***************************************************************************)
(* Model of src/kn.py: the chunker (chunk_text), the corpus builder        *)
(* (build_index_from_folder), the loader (load_kb), the retriever          *)
(* (search_kb), the context packer (build_context) and the map-reduce      *)
(* summarizer (summarize_corpus); and of the duty swaps of                 *)
(* src/duty_system/duty: request_swap and handle_swap_request (views.py)   *)
(* over DutySwapRequest.accept, reject and cancel (models.py), each        *)
(* database query a step of its own, as no transaction or row lock holds   *)
(* them together.                                                          *)
(*                                                                         *)
(* A text is a sequence of one-character strings; Python's 0-based,        *)
(* half-open positions are kept throughout (slice(s, a, b) is s[a:b]).     *)
(***************************************************************************)
EXTENDS Integers, Sequences, FiniteSets, TLC

VARIABLES
    \* ---- chunk_text: one call, stepped one loop iteration at a time
    input,      \* the argument `text` as passed (a text, or None)
    text,       \* the local `text` after line 61
    size,       \* the argument `size`
    overlap,    \* the argument `overlap`
    start,      \* the scan position
    chunks,     \* the local list `chunks` (stripped, empties still in it)
    wins,       \* history: the window [start, cut) of every iteration
    cpc,        \* position in chunk_text: "entry", "loop", "done"
    out,        \* the returned list
    \* ---- the knowledge-base directory on disk
    kbDir,      \* TRUE when the directory kb_dir exists
    indexFile,  \* index.faiss: absent, unreadable, or the rows of the index
    metaFile,   \* meta.jsonl: absent, or its records
    infoFile,   \* kb_info.json: absent, unreadable, or the info record
    \* ---- one command at a time (index / ask), a fresh process each
    pc,         \* "idle", the build's phases, "done", "failed", "searched"
    srcDir,     \* the entries of src_dir of the running build
    oldKb,      \* history: the three files as the running build found them
    oldDir,     \* history: whether kb_dir existed when that build started
    texts,      \* build_index_from_folder's `texts`
    metas,      \* build_index_from_folder's `metas`
    ei,         \* embed_texts' loop index i
    vecs,       \* embed_texts' `vecs`
    sent,       \* history: the batches embed_texts handed to the provider
    emb,        \* the matrix embed_texts returned
    err,        \* the exception that ended the command, "" if none
    searchOut,  \* what the last search_kb call came to
    \* ---- build_context: one call, stepped one loop iteration at a time
    hits,       \* the argument `hits`
    max_chars,  \* the argument `max_chars`
    picked,     \* the local list `picked`
    total,      \* the local `total`
    blocks,     \* the local list `blocks`
    bpc,        \* position in build_context: "pick", "done"
    context,    \* the returned context string
    \* ---- summarize_corpus: one run
    sumPc,      \* "idle", "mapping", "reducing", "done", "failed"
    max_docs,   \* the argument `max_docs`
    sumChunks,  \* the local `chunks` (line 241)
    si,         \* the loop index i (line 243)
    summaries,  \* the local list `summaries`
    calls,      \* history: the calls made to the chat collaborator
    report,     \* what the run printed (line 268), None before
    sumErr,     \* the exception that ended the run, NoError if none
    \* ---- the duty system's database and the web requests being served
    dutyStaff,  \* DutySchedule.staff of every duty row
    requests,   \* the DutySwapRequest rows, in order of creation (id = index)
    procs       \* per web request in progress: its position and its locals

chunkVars == <<input, text, size, overlap, start, chunks, wins, cpc, out>>
diskVars == <<kbDir, indexFile, metaFile, infoFile>>
buildVars ==
    <<pc, srcDir, oldKb, oldDir, texts, metas, ei, vecs, sent, emb, err, searchOut>>
ctxVars == <<hits, max_chars, picked, total, blocks, bpc, context>>
sumVars == <<sumPc, max_docs, sumChunks, si, summaries, calls, report, sumErr>>
dutyVars == <<dutyStaff, requests, procs>>
vars == <<chunkVars, diskVars, buildVars, ctxVars, sumVars, dutyVars>>

(***************************************************************************)
(* Bounds of the model.                                                    *)
(***************************************************************************)
MaxLen == 6      \* longest text handed to chunk_text
MaxSize == 6     \* largest `size` handed to chunk_text

\* Python's None as an argument: a value that is no text
None == <<"None">>

\* The characters texts are drawn from: a letter, the newline (whitespace
\* and a boundary marker at once) and the ASCII full stop.
Alphabet == {"a", "\n", "."}

Texts == UNION {[1..k -> Alphabet] : k \in 0..MaxLen}

Min(S) == CHOOSE m \in S : \A x \in S : m <= x
Max(S) == CHOOSE m \in S : \A x \in S : m >= x

(***************************************************************************)
(* Python built-ins used by chunk_text.                                    *)
(***************************************************************************)
\* s[a:b] for 0 <= a, b <= len(s)
slice(s, a, b) == SubSeq(s, a + 1, b)

\* str.isspace of one character
IsSpace(c) == c \in {" ", "\n", "\t", "\r"}

\* s.strip()
strip(s) ==
    LET keep == {i \in 1..Len(s) : ~IsSpace(s[i])}
    IN  IF keep = {} THEN <<>> ELSE SubSeq(s, Min(keep), Max(keep))

\* s.rfind(sep, lo, hi): the highest pos with lo <= pos, pos+len(sep) <= hi
\* and s[pos:pos+len(sep)] == sep; -1 when there is none
rfind(s, sep, lo, hi) ==
    LET P == {p \in lo..(hi - Len(sep)) : \A j \in 1..Len(sep) : s[p + j] = sep[j]}
    IN  IF P = {} THEN -1 ELSE Max(P)

(***************************************************************************)
(* chunk_text (src/kn.py:60-80).                                           *)
(***************************************************************************)
\* The boundary markers of line 71, in the order the loop tries them.  The
\* three full-width marks are named by their code points.
SEPS == << <<"\n", "\n">>, <<"\n">>, <<"U+3002">>, <<"U+FF01">>, <<"U+FF1F">>,
           <<".">>, <<"!">>, <<"?">> >>

\* Mutant of WindowEnd: the hard limit one character too far
WindowEnd_OffByOne(t, st, sz) == IF st + sz + 1 < Len(t) THEN st + sz + 1 ELSE Len(t)

\* line 68: end = min(start + size, n)
WindowEnd(t, st, sz) == IF st + sz < Len(t) THEN st + sz ELSE Len(t)

\* line 73: pos != -1 and pos > start + size * 0.6, in exact arithmetic
\* (10*pos > 10*start + 6*size; the float product agrees with it for every
\* size, start and pos below 200)
Qualifies(pos, st, sz) == pos # -1 /\ 10 * pos > 10 * st + 6 * sz

\* Mutant of CutSep: the last marker that qualifies wins, not the first
CutSep_Lowest(t, st, sz) ==
    LET e == WindowEnd(t, st, sz)
        Q == {i \in 1..Len(SEPS) : Qualifies(rfind(t, SEPS[i], st, e), st, sz)}
    IN  IF Q = {} THEN 0 ELSE Max(Q)

\* lines 70-75: the index in SEPS of the marker the loop breaks on, 0 if none
CutSep(t, st, sz) ==
    LET e == WindowEnd(t, st, sz)
        Q == {i \in 1..Len(SEPS) : Qualifies(rfind(t, SEPS[i], st, e), st, sz)}
    IN  IF Q = {} THEN 0 ELSE Min(Q)

\* lines 68-75: the value of `cut` when the for loop is left, given the
\* index i of the marker it broke on (0: it ran to its end)
CutAt(t, st, sz, i) ==
    LET e == WindowEnd(t, st, sz)
    IN  IF i = 0 THEN e ELSE rfind(t, SEPS[i], st, e) + Len(SEPS[i])

\* lines 68-75: the window [start, cut) of one iteration and its marker
Window(t, st, sz) ==
    LET i == CutSep(t, st, sz)
    IN  [start |-> st, cut |-> CutAt(t, st, sz, i), sep |-> i]

\* Mutant of NextStart: max(cut - overlap, start), no forced progress
NextStart_NoProgress(cut, st, ov) == IF cut - ov > st THEN cut - ov ELSE st

\* Mutant of NextStart: the next window starts one past cut - overlap
NextStart_Gap(cut, st, ov) == IF cut - ov + 1 > st + 1 THEN cut - ov + 1 ELSE st + 1

\* Mutant of NextStart: max(cut - overlap, 1), the floor is not start + 1
NextStart_Back(cut, st, ov) == IF cut - ov > 1 THEN cut - ov ELSE 1

\* line 78: start = max(cut - overlap, start + 1)
NextStart(cut, st, ov) == IF cut - ov > st + 1 THEN cut - ov ELSE st + 1

\* Mutant of DropEmpty: the list is returned unfiltered
DropEmpty_Keep(cs) == cs

\* line 80: [c for c in chunks if c]
DropEmpty(cs) == SelectSeq(cs, LAMBDA c : c # <<>>)

\* lines 61-66
ChunkBegin ==
    /\ cpc = "entry"
    /\ LET t == strip(IF input = None THEN <<>> ELSE input)
       IN  /\ text' = t
           /\ cpc' = IF t = <<>> THEN "done" ELSE "loop"
    /\ chunks' = <<>>
    /\ start' = 0
    /\ out' = <<>>
    /\ UNCHANGED <<input, size, overlap, wins>>
    /\ UNCHANGED <<diskVars, buildVars, ctxVars, sumVars, dutyVars>>

\* lines 67-78: one iteration of the while loop
ChunkIter ==
    /\ cpc = "loop"
    /\ start < Len(text)
    /\ LET w == Window(text, start, size)
       IN  /\ chunks' = Append(chunks, strip(slice(text, start, w.cut)))
           /\ wins' = Append(wins, w)
           /\ start' = NextStart(w.cut, start, overlap)
    /\ UNCHANGED <<input, text, size, overlap, cpc, out>>
    /\ UNCHANGED <<diskVars, buildVars, ctxVars, sumVars, dutyVars>>

\* lines 67 and 80: the loop condition fails and the list is returned
ChunkReturn ==
    /\ cpc = "loop"
    /\ ~(start < Len(text))
    /\ out' = DropEmpty(chunks)
    /\ cpc' = "done"
    /\ UNCHANGED <<input, text, size, overlap, start, chunks, wins>>
    /\ UNCHANGED <<diskVars, buildVars, ctxVars, sumVars, dutyVars>>

(***************************************************************************)
(* Files of the knowledge-base directory.                                  *)
(***************************************************************************)
\* A file that does not exist
Absent == [st |-> "absent", data |-> <<>>]

\* A file left truncated or half-written: it exists and cannot be read back
Unreadable == [st |-> "unreadable", data |-> <<>>]

\* A file written completely, holding d
Written(d) == [st |-> "ok", data |-> d]

NoSearch ==
    [status |-> "none", query |-> <<>>, k |-> 0, hits |-> <<>>, rows |-> 0, recs |-> 0]

\* No knowledge base on disk
EmptyDisk ==
    /\ kbDir = FALSE
    /\ indexFile = Absent
    /\ metaFile = Absent
    /\ infoFile = Absent

\* No command has run yet
NoCommand ==
    /\ pc = "idle"
    /\ srcDir = {}
    /\ oldKb = <<Absent, Absent, Absent>>
    /\ oldDir = FALSE
    /\ texts = <<>>
    /\ metas = <<>>
    /\ ei = 0
    /\ vecs = <<>>
    /\ sent = <<>>
    /\ emb = <<>>
    /\ err = ""
    /\ searchOut = NoSearch

\* build_context is not being stepped
NoContext ==
    /\ hits = <<>>
    /\ max_chars = 0
    /\ picked = <<>>
    /\ total = 0
    /\ blocks = <<>>
    /\ bpc = "done"
    /\ context = <<>>

\* No exception
NoError == [type |-> "none"]

\* No summarize run yet
NoSummary ==
    /\ sumPc = "idle"
    /\ max_docs = 0
    /\ sumChunks = <<>>
    /\ si = 0
    /\ summaries = <<>>
    /\ calls = <<>>
    /\ report = None
    /\ sumErr = NoError

(***************************************************************************)
(* The duty system's data (src/duty_system/duty/models.py).                *)
(***************************************************************************)
MaxProcs == 2       \* web requests served at the same time
MaxRequests == 2    \* most swap requests ever created

\* The Staff rows (each the one Staff of its user)
Staff == {"A", "B"}

\* The DutySchedule rows by id, one per date as generate_monthly_schedule
\* creates them
Duties == {1, 2}

\* The schedule as generated: the duty order is A, B
Schedule == [d \in Duties |-> IF d = 1 THEN "A" ELSE "B"]

Procs == 1..MaxProcs

\* DutySwapRequest.STATUS_CHOICES other than 'pending'
Final == {"accepted", "rejected", "cancelled"}

\* A worker serving no request
IdleProc ==
    [pc |-> "idle", user |-> "", swap_request |-> 0, status |-> "",
     requester_duty |-> 0, target_duty |-> 0,
     requester_staff |-> "", target_staff |-> ""]

\* The schedule as generated, no swap request, no web request in progress
NoDuty ==
    /\ dutyStaff = Schedule
    /\ requests = <<>>
    /\ procs = [p \in Procs |-> IdleProc]

\* A call of chunk_text with size > 0 and 0 <= overlap < size
InitChunk ==
    /\ input \in Texts \cup {None}
    /\ size \in 1..MaxSize
    /\ overlap \in 0..(size - 1)
    /\ text = <<>>
    /\ start = 0
    /\ chunks = <<>>
    /\ wins = <<>>
    /\ cpc = "entry"
    /\ out = <<>>
    /\ EmptyDisk
    /\ NoCommand
    /\ NoContext
    /\ NoSummary
    /\ NoDuty

NextChunk == ChunkBegin \/ ChunkIter \/ ChunkReturn

SpecChunk == InitChunk /\ [][NextChunk]_vars

(***************************************************************************)
(* Configuration (src/kn.py:18-24), scaled down with the texts: the        *)
(* program's values are 1200, 200 and 96.                                  *)
(***************************************************************************)
CHUNK_SIZE == 6
CHUNK_OVERLAP == 1
EMBED_BATCH == 2
EMBED_MODEL == "text-embedding-3-small"

MaxK == 3        \* largest top_k handed to search_kb

(***************************************************************************)
(* chunk_text as the function the builder calls: the same loop, run to its *)
(* end.                                                                    *)
(***************************************************************************)
RECURSIVE ChunkLoop(_, _, _, _, _)
\* lines 67-80, from scan position st with the list cs collected so far
ChunkLoop(t, st, sz, ov, cs) ==
    IF st < Len(t)
    THEN LET w == Window(t, st, sz)
         IN  ChunkLoop(t, NextStart(w.cut, st, ov), sz, ov,
                       Append(cs, strip(slice(t, st, w.cut))))
    ELSE DropEmpty(cs)

\* lines 60-80
chunk_text(inp, sz, ov) ==
    LET t == strip(IF inp = None THEN <<>> ELSE inp)
    IN  IF t = <<>> THEN <<>> ELSE ChunkLoop(t, 0, sz, ov, <<>>)

(***************************************************************************)
(* The embedding provider and embed_texts (src/kn.py:43-58).               *)
(***************************************************************************)
\* client.embeddings.create on one text: a stub provider, deterministic, with
\* vectors of dimension 2 along an axis, of length len(text)
Embedding(t) ==
    LET L == Len(t)
    IN  CASE L % 4 = 0 -> <<L, 0>>
          [] L % 4 = 1 -> <<0, L>>
          [] L % 4 = 2 -> <<0 - L, 0>>
          [] OTHER     -> <<0, 0 - L>>

Sign(x) == IF x > 0 THEN 1 ELSE IF x < 0 THEN 0 - 1 ELSE 0

\* lines 43-46: every row divided by its norm (+ 1e-12).  The norm of a row
\* along an axis is the magnitude of its one non-zero entry, so the quotient
\* is that entry's sign
normalize(m) == [r \in 1..Len(m) |-> <<Sign(m[r][1]), Sign(m[r][2])>>]

\* Mutant of BatchOf: the batch is one text long
BatchOf_Long(ts, i) ==
    slice(ts, i, IF i + EMBED_BATCH + 1 < Len(ts) THEN i + EMBED_BATCH + 1 ELSE Len(ts))

\* Mutant of BatchOf: the batch is one text short
BatchOf_Short(ts, i) ==
    slice(ts, i, IF i + EMBED_BATCH - 1 < Len(ts) THEN i + EMBED_BATCH - 1 ELSE Len(ts))

\* line 52: batch = texts[i:i+EMBED_BATCH]
BatchOf(ts, i) ==
    slice(ts, i, IF i + EMBED_BATCH < Len(ts) THEN i + EMBED_BATCH ELSE Len(ts))

\* lines 53-54: the provider's answer to one batch, in input order
EmbedBatch(batch) == [j \in 1..Len(batch) |-> Embedding(batch[j])]

(***************************************************************************)
(* The source directory and the scan (src/kn.py:82-86, 101-120).           *)
(***************************************************************************)
\* Code point of a file name's letter, for sorted()
Ord(c) == CASE c = "a" -> 97 [] c = "b" -> 98 [] OTHER -> 110

\* The file <c>.txt holding the bytes b
TxtFile(c, b) == [stem |-> <<c>>, suffix |-> ".txt", bytes |-> b]

NotesEntry == [stem |-> <<"n">>, suffix |-> ".md", bytes |-> <<"x">>]

\* The directories a build is run on: a file that is no .txt, alone; beside
\* an empty a.txt; beside an empty a.txt and a b.txt of the same bytes;
\* beside an a.txt that is no valid UTF-8 and a b.txt with some text
SrcDirs ==
    {{NotesEntry},
     {NotesEntry, TxtFile("a", <<>>)},
     {NotesEntry, TxtFile("a", <<>>), TxtFile("b", <<>>)},
     {NotesEntry, TxtFile("a", <<"\\xff">>), TxtFile("b", <<"x", "y", ".">>)}}

\* line 101: files = sorted([p for p in src_dir.rglob("*.txt") if p.is_file()])
SortedFiles(d) ==
    LET elig == {f \in d : f.suffix = ".txt"}
    IN  IF elig = {} THEN <<>>
        ELSE CHOOSE fs \in [1..Cardinality(elig) -> elig] :
                \A i, j \in 1..Cardinality(elig) :
                    i < j => Ord(fs[i].stem[1]) < Ord(fs[j].stem[1])

\* line 84: the strict decoding of the file succeeds
Decodes(f) == \A i \in 1..Len(f.bytes) : f.bytes[i] # "\\xff"

\* lines 82-86: the file's text; bytes that do not decode are dropped
load_txt(f) == SelectSeq(f.bytes, LAMBDA b : b # "\\xff")

\* lines 36-41: the SHA-1 of the file's bytes, taken as collision-free: equal
\* exactly for equal contents
file_sha1(f) == f.bytes

\* line 111: content = f"# {title}\n\n{raw}"
Content(title, raw) == <<"#", " ">> \o title \o <<"\n", "\n">> \o raw

\* lines 107-120: what one file adds to texts and metas
FileRecords(f) ==
    LET cks == chunk_text(Content(f.stem, load_txt(f)), CHUNK_SIZE, CHUNK_OVERLAP)
    IN  [k \in 1..Len(cks) |->
            [text |-> cks[k],
             meta |-> [id |-> <<file_sha1(f), k - 1>>,
                       file |-> f.stem \o <<f.suffix>>,
                       title |-> f.stem,
                       chunk_index |-> k - 1]]]

RECURSIVE ScanFrom(_, _)
\* lines 106-120: the records of files k.. of the sorted list
ScanFrom(fs, k) ==
    IF k > Len(fs) THEN <<>> ELSE FileRecords(fs[k]) \o ScanFrom(fs, k + 1)

\* lines 101-120 on each of the source directories: the sorted .txt files
\* and the records the scan collects from them
Scans ==
    [d \in SrcDirs |->
        LET fs == SortedFiles(d)
        IN  [files |-> fs, recs |-> ScanFrom(fs, 1)]]

(***************************************************************************)
(* build_index_from_folder (src/kn.py:91-143).                             *)
(***************************************************************************)
Terminal == {"idle", "done", "failed", "searched"}

\* The command ends (the function returns or the exception leaves it): its
\* locals are gone
Exit ==
    /\ srcDir' = {}
    /\ texts' = <<>>
    /\ metas' = <<>>
    /\ ei' = 0
    /\ vecs' = <<>>
    /\ sent' = <<>>
    /\ emb' = <<>>

\* lines 92-120: ensure_dir, the listing of the .txt files, the scan
StartBuild ==
    /\ pc \in Terminal
    /\ \E d \in SrcDirs :
        LET fs == Scans[d].files
            recs == Scans[d].recs
        IN  IF fs = <<>>
            THEN /\ pc' = "failed"
                 /\ err' = "SystemExit"
                 /\ srcDir' = {}
                 /\ texts' = <<>>
                 /\ metas' = <<>>
            ELSE /\ pc' = "embed"
                 /\ err' = ""
                 /\ srcDir' = d
                 /\ texts' = [i \in 1..Len(recs) |-> recs[i].text]
                 /\ metas' = [i \in 1..Len(recs) |-> recs[i].meta]
    /\ kbDir' = TRUE
    /\ oldKb' = <<indexFile, metaFile, infoFile>>
    /\ oldDir' = kbDir
    /\ ei' = 0
    /\ vecs' = <<>>
    /\ sent' = <<>>
    /\ emb' = <<>>
    /\ searchOut' = NoSearch
    /\ UNCHANGED <<indexFile, metaFile, infoFile, chunkVars, ctxVars, sumVars, dutyVars>>

\* lines 51-58: one batch answered by the provider; after the last one the
\* matrix is normalized and returned
EmbedBatchOk ==
    /\ pc = "embed"
    /\ ei < Len(texts)
    /\ LET v == vecs \o EmbedBatch(BatchOf(texts, ei))
       IN  /\ vecs' = v
           /\ sent' = Append(sent, BatchOf(texts, ei))
           /\ ei' = ei + EMBED_BATCH
           /\ IF ei + EMBED_BATCH < Len(texts)
              THEN UNCHANGED <<pc, emb>>
              ELSE pc' = "write_index" /\ emb' = normalize(v)
    /\ UNCHANGED <<srcDir, oldKb, oldDir, texts, metas, err, searchOut, diskVars, chunkVars, ctxVars, sumVars, dutyVars>>

\* line 53: the provider call raises
EmbedBatchFail ==
    /\ pc = "embed"
    /\ ei < Len(texts)
    /\ pc' = "failed"
    /\ err' = "CollaboratorError"
    /\ Exit
    /\ UNCHANGED <<oldKb, oldDir, searchOut, diskVars, chunkVars, ctxVars, sumVars, dutyVars>>

\* lines 127-130: the index is built from emb and written
WriteIndexOk ==
    /\ pc = "write_index"
    /\ indexFile' = Written(emb)
    /\ pc' = "write_meta"
    /\ UNCHANGED <<srcDir, oldKb, oldDir, texts, metas, ei, vecs, sent, emb, err, searchOut,
                   kbDir, metaFile, infoFile, chunkVars, ctxVars, sumVars, dutyVars>>

\* line 130: faiss.write_index raises: the file could not be opened (it is as
\* it was) or the write broke off (it is unreadable)
WriteIndexFail ==
    /\ pc = "write_index"
    /\ indexFile' \in {indexFile, Unreadable}
    /\ pc' = "failed"
    /\ err' = "IOError"
    /\ Exit
    /\ UNCHANGED <<oldKb, oldDir, searchOut, kbDir, metaFile, infoFile, chunkVars, ctxVars, sumVars, dutyVars>>

\* lines 132-135: one record per (meta, text) pair
MetaRecords(ms, ts) ==
    [i \in 1..(IF Len(ms) < Len(ts) THEN Len(ms) ELSE Len(ts)) |->
        [meta |-> ms[i], text |-> ts[i]]]

WriteMetaOk ==
    /\ pc = "write_meta"
    /\ metaFile' = Written(MetaRecords(metas, texts))
    /\ pc' = "write_info"
    /\ UNCHANGED <<srcDir, oldKb, oldDir, texts, metas, ei, vecs, sent, emb, err, searchOut,
                   kbDir, indexFile, infoFile, chunkVars, ctxVars, sumVars, dutyVars>>

\* lines 132-135: open or write raises: the file is as it was (open failed)
\* or holds the records written before the failure (none yet, or all but
\* the last)
WriteMetaFail ==
    /\ pc = "write_meta"
    /\ \/ metaFile' = metaFile
       \/ \E k \in {0, Len(texts) - 1} :
            metaFile' = Written(SubSeq(MetaRecords(metas, texts), 1, k))
    /\ pc' = "failed"
    /\ err' = "IOError"
    /\ Exit
    /\ UNCHANGED <<oldKb, oldDir, searchOut, kbDir, indexFile, infoFile, chunkVars, ctxVars, sumVars, dutyVars>>

\* lines 137-142
KbInfo(e, ts) ==
    [dim |-> Len(e[1]), count |-> Len(ts), built_from |-> "src_dir",
     embed_model |-> EMBED_MODEL]

\* line 143
WriteInfoOk ==
    /\ pc = "write_info"
    /\ infoFile' = Written(<<KbInfo(emb, texts)>>)
    /\ pc' = "done"
    /\ Exit
    /\ UNCHANGED <<oldKb, oldDir, err, searchOut, kbDir, indexFile, metaFile, chunkVars, ctxVars, sumVars, dutyVars>>

\* line 143: write_text raises
WriteInfoFail ==
    /\ pc = "write_info"
    /\ infoFile' \in {infoFile, Unreadable}
    /\ pc' = "failed"
    /\ err' = "IOError"
    /\ Exit
    /\ UNCHANGED <<oldKb, oldDir, searchOut, kbDir, indexFile, metaFile, chunkVars, ctxVars, sumVars, dutyVars>>

(***************************************************************************)
(* load_kb and search_kb (src/kn.py:153-181).                              *)
(***************************************************************************)
\* lines 153-162: the index and the records as read; err names the exception
\* when a file cannot be read
load_kb(ix, mf) ==
    IF ix.st # "ok"
    THEN [err |-> "RuntimeError", index |-> <<>>, metas |-> <<>>, texts |-> <<>>]
    ELSE IF mf.st # "ok"
    THEN [err |-> "FileNotFoundError", index |-> <<>>, metas |-> <<>>, texts |-> <<>>]
    ELSE [err |-> "", index |-> ix.data,
          metas |-> [i \in 1..Len(mf.data) |-> mf.data[i].meta],
          texts |-> [i \in 1..Len(mf.data) |-> mf.data[i].text]]

\* inner product of two vectors of dimension 2
Dot(u, v) == u[1] * v[1] + u[2] * v[2]

\* Mutant of IndexSearch: the rows come worst first
IndexSearch_WorstFirst(rows, q, k) ==
    LET Before(j, i) ==
            \/ Dot(rows[j], q) < Dot(rows[i], q)
            \/ Dot(rows[j], q) = Dot(rows[i], q) /\ j < i
        Pos(i) == 1 + Cardinality({j \in 1..Len(rows) : Before(j, i)})
    IN  [p \in 1..k |->
            IF p <= Len(rows)
            THEN (CHOOSE i \in 1..Len(rows) : Pos(i) = p) - 1
            ELSE 0 - 1]

\* line 167, index.search(qv, top_k): the 0-based ids of the k best rows by
\* inner product, best first, an earlier row before a later one of equal
\* score; -1 where the index has fewer than k rows
IndexSearch(rows, q, k) ==
    LET Before(j, i) ==
            \/ Dot(rows[j], q) > Dot(rows[i], q)
            \/ Dot(rows[j], q) = Dot(rows[i], q) /\ j < i
        Pos(i) == 1 + Cardinality({j \in 1..Len(rows) : Before(j, i)})
    IN  [p \in 1..k |->
            IF p <= Len(rows)
            THEN (CHOOSE i \in 1..Len(rows) : Pos(i) = p) - 1
            ELSE 0 - 1]

RECURSIVE Hits(_, _, _, _, _)
\* lines 171-180: the hits of idxs[p..], skipping -1
Hits(kb, q, idxs, p, acc) ==
    IF p > Len(idxs) THEN acc
    ELSE IF idxs[p] = 0 - 1 THEN Hits(kb, q, idxs, p + 1, acc)
    ELSE Hits(kb, q, idxs, p + 1,
              Append(acc, [score |-> Dot(kb.index[idxs[p] + 1], q),
                           text |-> kb.texts[idxs[p] + 1],
                           meta |-> kb.metas[idxs[p] + 1]]))

\* Queries put to the knowledge base
Queries == {<<"a">>, <<"#", " ", "a">>}

\* What a search_kb(kb_dir, query, top_k) call came to: its hits, or that it
\* raised, with the row and record counts of the knowledge base it loaded
Outcome(st, query, top_k, hs, kb) ==
    [status |-> st, query |-> query, k |-> top_k, hits |-> hs,
     rows |-> Len(kb.index), recs |-> Len(kb.texts)]

\* lines 164-181: search_kb(kb_dir, query, top_k), the whole call
Search ==
    /\ pc \in Terminal
    /\ \E query \in Queries, top_k \in 1..MaxK, embedOk \in BOOLEAN :
        LET kb == load_kb(indexFile, metaFile)
            qv == normalize(EmbedBatch(BatchOf(<<query>>, 0)))[1]
            idxs == IndexSearch(kb.index, qv, top_k)
        IN  IF kb.err # ""
            THEN /\ err' = kb.err
                 /\ searchOut' = Outcome("error", query, top_k, <<>>, kb)
            ELSE IF ~embedOk
            THEN /\ err' = "CollaboratorError"
                 /\ searchOut' = Outcome("error", query, top_k, <<>>, kb)
            ELSE IF \E p \in 1..top_k : idxs[p] >= Len(kb.texts)
            THEN /\ err' = "IndexError"
                 /\ searchOut' = Outcome("error", query, top_k, <<>>, kb)
            ELSE /\ err' = ""
                 /\ searchOut' = Outcome("hits", query, top_k,
                                         Hits(kb, qv, idxs, 1, <<>>), kb)
    /\ pc' = "searched"
    /\ Exit
    /\ UNCHANGED <<oldKb, oldDir, diskVars, chunkVars, ctxVars, sumVars, dutyVars>>

(***************************************************************************)
(* build_context and tidy (src/kn.py:183-198).                             *)
(***************************************************************************)
MaxHits == 3     \* most hits handed to build_context
MaxChars == 8    \* largest `max_chars` handed to build_context

Digit(d) == <<"0", "1", "2", "3", "4", "5", "6", "7", "8", "9">>[d + 1]

RECURSIVE Str(_)
\* str(k) of a natural number, as the f-string formats it
Str(k) == IF k < 10 THEN <<Digit(k)>> ELSE Str(k \div 10) \o <<Digit(k % 10)>>

RECURSIVE ReplaceCRLF(_)
\* s.replace("\r\n", "\n")
ReplaceCRLF(s) ==
    IF s = <<>> THEN <<>>
    ELSE IF Len(s) >= 2 /\ s[1] = "\r" /\ s[2] = "\n"
    THEN <<"\n">> \o ReplaceCRLF(SubSeq(s, 3, Len(s)))
    ELSE <<s[1]>> \o ReplaceCRLF(Tail(s))

\* lines 197-198
tidy(s) == ReplaceCRLF(strip(s))

\* line 193: Path(file).name, what follows the last "/"
PathName(p) == slice(p, rfind(p, <<"/">>, 0, Len(p)) + 1, Len(p))

RECURSIVE Join(_, _)
\* sep.join(bs)
Join(bs, sep) ==
    IF bs = <<>> THEN <<>>
    ELSE IF Len(bs) = 1 THEN bs[1]
    ELSE bs[1] \o sep \o Join(Tail(bs), sep)

\* Mutant of Fits: a hit that fills the budget exactly is turned away
Fits_Strict(tot, t, mc) == ~(tot + Len(t) >= mc)

\* line 187, negated: the hit's text still fits the budget
Fits(tot, t, mc) == ~(tot + Len(t) > mc)

\* line 194: the block of the i-th picked hit; the four CJK characters of the
\* citation header are named by their code points
Block(i, h) ==
    <<"[">> \o Str(i) \o <<"]", " ", "U+6765", "U+6E90", ":", " ">>
        \o PathName(h.meta.file)
        \o <<" ", " ", "(", "U+7247", "U+6BB5", "#">> \o Str(h.meta.chunk_index)
        \o <<")", "\n">> \o tidy(h.text)

\* Chunk texts the hits carry, as chunk_text stores them (stripped, not
\* empty); one holds a Windows line break
HitTexts == {<<"a">>, <<"a", "b">>, <<"a", "b", "c">>, <<"a", "\r", "\n", "b">>}

\* A hit as search_kb builds it (lines 175-179)
HitOf(t) ==
    [score |-> 1, text |-> t,
     meta |-> [id |-> <<t, 0>>, file |-> <<"d", "/", "a", ".", "t", "x", "t">>,
               title |-> <<"a">>, chunk_index |-> 5 * (Len(t) - 1)]]

HitSeqs == UNION {[1..k -> {HitOf(t) : t \in HitTexts}] : k \in 0..MaxHits}

\* lines 185-190: one iteration of the first loop that does not break
PickHit ==
    /\ bpc = "pick"
    /\ Len(picked) < Len(hits)
    /\ LET h == hits[Len(picked) + 1]
       IN  /\ Fits(total, h.text, max_chars)
           /\ picked' = Append(picked, h)
           /\ total' = total + Len(h.text)
    /\ UNCHANGED <<hits, max_chars, blocks, bpc, context>>
    /\ UNCHANGED <<chunkVars, diskVars, buildVars, sumVars, dutyVars>>

\* lines 185-195: the first loop is left (break, or no hit remains), the
\* blocks are formatted and joined, the function returns
PackBlocks ==
    /\ bpc = "pick"
    /\ IF Len(picked) < Len(hits)
       THEN ~Fits(total, hits[Len(picked) + 1].text, max_chars)
       ELSE TRUE
    /\ LET bs == [i \in 1..Len(picked) |-> Block(i, picked[i])]
       IN  /\ blocks' = bs
           /\ context' = Join(bs, <<"\n", "\n">>)
    /\ bpc' = "done"
    /\ UNCHANGED <<hits, max_chars, picked, total>>
    /\ UNCHANGED <<chunkVars, diskVars, buildVars, sumVars, dutyVars>>

(***************************************************************************)
(* summarize_corpus (src/kn.py:237-268).                                   *)
(***************************************************************************)
SUM_BATCH == 8   \* the batch size of the map phase (lines 243-244)

MaxDocs == 24    \* largest `max_docs` handed to summarize_corpus
MaxCount == 26   \* most chunks stored in the knowledge base summarized

\* The text of the i-th stored chunk: "d" and its number
Doc(i) == <<"d">> \o Str(i)

\* The files of a knowledge base of c stored chunks.  With c = 0 it is what
\* a rebuild leaves that failed when it had just emptied meta.jsonl
SumKb(c) ==
    [index |-> Written([i \in 1..(IF c = 0 THEN 2 ELSE c) |-> <<1, 0>>]),
     meta |-> Written([i \in 1..c |->
                 [meta |-> [id |-> <<<<>>, i - 1>>, file |-> <<"a", ".txt">>,
                            title |-> <<"a">>, chunk_index |-> i - 1],
                  text |-> Doc(i)]]),
     info |-> Written(<<[dim |-> 2, count |-> c, built_from |-> "src_dir",
                         embed_model |-> EMBED_MODEL]>>)]

\* The argument `goal`
Goal == <<"g">>

\* client.chat.completions.create answering a prompt: a stub collaborator,
\* deterministic, its reply padded with a line break
ChatReply(prompt) == <<"S", "(">> \o prompt \o <<")", "\n">>

\* The exception the collaborator raises, as it reaches the caller: the code
\* catches nothing and adds nothing to it
ProviderError == [type |-> "APIError"]

\* Mutant of SumBatchOf: the batch is one chunk short
SumBatchOf_Short(cs, i) ==
    slice(cs, i, IF i + SUM_BATCH - 1 < Len(cs) THEN i + SUM_BATCH - 1 ELSE Len(cs))

\* line 241: texts[:max_docs], for max_docs >= 0
FirstDocs(ts, md) == slice(ts, 0, IF md < Len(ts) THEN md ELSE Len(ts))

\* line 244: batch = chunks[i:i+8]
SumBatchOf(cs, i) ==
    slice(cs, i, IF i + SUM_BATCH < Len(cs) THEN i + SUM_BATCH ELSE Len(cs))

\* Mutant of MoreBatches: the loop stops one batch early
MoreBatches_SkipLast(i, cs) == i + SUM_BATCH < Len(cs)

\* line 243: range(0, len(chunks), 8) has not run out at i
MoreBatches(i, cs) == i < Len(cs)

\* lines 245-248; the fixed instruction is one token
MapPrompt(batch) ==
    <<"MAP_INSTRUCTION">> \o Join(batch, <<"\n", "\n", "-", "-", "-", "\n", "\n">>)

\* lines 258-261; the fixed instruction is one token
FinalPrompt(goal, sums) ==
    <<"GOAL">> \o goal \o <<"\n", "\n", "REDUCE_INSTRUCTION">>
        \o Join(sums, <<"\n", "\n", "=", "=", "=", "=", "\n", "\n">>)

\* A call made to the chat collaborator
MapCall(batch) == [kind |-> "map", batch |-> batch, prompt |-> MapPrompt(batch)]
ReduceCall(sums) == [kind |-> "reduce", batch |-> <<>>, prompt |-> FinalPrompt(Goal, sums)]

\* lines 239-242: the knowledge base is loaded and cut to max_docs chunks
SumStart ==
    /\ sumPc = "idle"
    /\ \E md \in 0..MaxDocs :
        LET kb == load_kb(indexFile, metaFile)
        IN  /\ max_docs' = md
            /\ IF kb.err # ""
               THEN /\ sumPc' = "failed"
                    /\ sumErr' = [type |-> kb.err]
                    /\ sumChunks' = <<>>
               ELSE /\ sumPc' = "mapping"
                    /\ sumErr' = NoError
                    /\ sumChunks' = FirstDocs(kb.texts, md)
    /\ si' = 0
    /\ summaries' = <<>>
    /\ UNCHANGED <<calls, report>>
    /\ UNCHANGED <<chunkVars, diskVars, buildVars, ctxVars, dutyVars>>

\* lines 243-255: one batch summarized by the collaborator
MapOk ==
    /\ sumPc = "mapping"
    /\ MoreBatches(si, sumChunks)
    /\ LET call == MapCall(SumBatchOf(sumChunks, si))
       IN  /\ calls' = Append(calls, call)
           /\ summaries' = Append(summaries, strip(ChatReply(call.prompt)))
    /\ si' = si + SUM_BATCH
    /\ UNCHANGED <<sumPc, max_docs, sumChunks, report, sumErr>>
    /\ UNCHANGED <<chunkVars, diskVars, buildVars, ctxVars, dutyVars>>

\* line 249: the collaborator raises on a batch
MapFail ==
    /\ sumPc = "mapping"
    /\ MoreBatches(si, sumChunks)
    /\ calls' = Append(calls, MapCall(SumBatchOf(sumChunks, si)))
    /\ sumPc' = "failed"
    /\ sumErr' = ProviderError
    /\ UNCHANGED <<max_docs, sumChunks, si, summaries, report>>
    /\ UNCHANGED <<chunkVars, diskVars, buildVars, ctxVars, dutyVars>>

\* lines 243 and 258-261: the loop has run out, the final prompt is built
MapEnd ==
    /\ sumPc = "mapping"
    /\ ~MoreBatches(si, sumChunks)
    /\ sumPc' = "reducing"
    /\ UNCHANGED <<max_docs, sumChunks, si, summaries, calls, report, sumErr>>
    /\ UNCHANGED <<chunkVars, diskVars, buildVars, ctxVars, dutyVars>>

\* lines 262-268: the collaborator answers the final prompt, the report is
\* printed
ReduceOk ==
    /\ sumPc = "reducing"
    /\ LET call == ReduceCall(summaries)
       IN  /\ calls' = Append(calls, call)
           /\ report' = strip(ChatReply(call.prompt))
    /\ sumPc' = "done"
    /\ UNCHANGED <<max_docs, sumChunks, si, summaries, sumErr>>
    /\ UNCHANGED <<chunkVars, diskVars, buildVars, ctxVars, dutyVars>>

\* line 262: the collaborator raises on the final prompt
ReduceFail ==
    /\ sumPc = "reducing"
    /\ calls' = Append(calls, ReduceCall(summaries))
    /\ sumPc' = "failed"
    /\ sumErr' = ProviderError
    /\ UNCHANGED <<max_docs, sumChunks, si, summaries, report>>
    /\ UNCHANGED <<chunkVars, diskVars, buildVars, ctxVars, dutyVars>>

(***************************************************************************)
(* Duty swaps: DutySwapRequest (src/duty_system/duty/models.py:41-86),     *)
(* request_swap and handle_swap_request (src/duty_system/duty/views.py:    *)
(* 438-510).  Every database query is a step of its own: the views run     *)
(* outside any transaction and take no row lock, so the steps of web       *)
(* requests served at the same time interleave.                            *)
(***************************************************************************)
\* The other rows of the request table and the duty table stay as they are
Others == <<chunkVars, diskVars, buildVars, ctxVars, sumVars>>

\* Worker p goes on as r
Become(p, r) == procs' = [procs EXCEPT ![p] = r]

\* Web requests inside request_swap that may still create a row
Creating == {q \in Procs : procs[q].pc \in {"get_target", "check", "create"}}

\* models.py lines 64, 79, 84: self.status == 'pending', on the loaded copy
StillPending(st) == st = "pending"

\* views.py lines 491-505: the request row is loaded, the user is checked to
\* be its target, the action is dispatched
HandleLoad ==
    \E p \in Procs, id \in 1..Len(requests), user \in Staff,
       action \in {"accept", "reject"} :
        /\ procs[p].pc = "idle"
        /\ requests[id].target = user
        /\ Become(p, [IdleProc EXCEPT
                        !.pc = action, !.user = user, !.swap_request = id,
                        !.status = requests[id].status,
                        !.requester_duty = requests[id].requester_duty,
                        !.target_duty = requests[id].target_duty])
        /\ UNCHANGED <<dutyStaff, requests, Others>>

\* models.py lines 64-66: the status check, then requester_duty is fetched
\* and its staff read
AcceptReadRequester ==
    \E p \in Procs :
        /\ procs[p].pc = "accept"
        /\ IF StillPending(procs[p].status)
           THEN Become(p, [procs[p] EXCEPT
                             !.pc = "read_target",
                             !.requester_staff = dutyStaff[procs[p].requester_duty]])
           ELSE Become(p, IdleProc)
        /\ UNCHANGED <<dutyStaff, requests, Others>>

\* models.py line 67: target_duty is fetched and its staff read
AcceptReadTarget ==
    \E p \in Procs :
        /\ procs[p].pc = "read_target"
        /\ Become(p, [procs[p] EXCEPT
                        !.pc = "save_requester_duty",
                        !.target_staff = dutyStaff[procs[p].target_duty]])
        /\ UNCHANGED <<dutyStaff, requests, Others>>

\* models.py lines 69 and 72: requester_duty is saved with the target's staff
AcceptSaveRequesterDuty ==
    \E p \in Procs :
        /\ procs[p].pc = "save_requester_duty"
        /\ dutyStaff' = [dutyStaff EXCEPT ![procs[p].requester_duty] = procs[p].target_staff]
        /\ Become(p, [procs[p] EXCEPT !.pc = "save_target_duty"])
        /\ UNCHANGED <<requests, Others>>

\* models.py lines 70 and 73: target_duty is saved with the requester's staff
AcceptSaveTargetDuty ==
    \E p \in Procs :
        /\ procs[p].pc = "save_target_duty"
        /\ dutyStaff' = [dutyStaff EXCEPT ![procs[p].target_duty] = procs[p].requester_staff]
        /\ Become(p, [procs[p] EXCEPT !.pc = "save_status"])
        /\ UNCHANGED <<requests, Others>>

\* models.py lines 75-76: the request is saved as accepted
AcceptSaveStatus ==
    \E p \in Procs :
        /\ procs[p].pc = "save_status"
        /\ requests' = [requests EXCEPT ![procs[p].swap_request].status = "accepted"]
        /\ Become(p, IdleProc)
        /\ UNCHANGED <<dutyStaff, Others>>

\* models.py lines 78-81
Reject ==
    \E p \in Procs :
        /\ procs[p].pc = "reject"
        /\ IF StillPending(procs[p].status)
           THEN requests' = [requests EXCEPT ![procs[p].swap_request].status = "rejected"]
           ELSE UNCHANGED requests
        /\ Become(p, IdleProc)
        /\ UNCHANGED <<dutyStaff, Others>>

\* A caller of DutySwapRequest.cancel loads the request (no view calls
\* cancel; whoever does holds an instance loaded before the call)
CancelLoad ==
    \E p \in Procs, id \in 1..Len(requests) :
        /\ procs[p].pc = "idle"
        /\ Become(p, [IdleProc EXCEPT
                        !.pc = "cancel", !.user = requests[id].requester,
                        !.swap_request = id, !.status = requests[id].status,
                        !.requester_duty = requests[id].requester_duty,
                        !.target_duty = requests[id].target_duty])
        /\ UNCHANGED <<dutyStaff, requests, Others>>

\* models.py lines 83-86
Cancel ==
    \E p \in Procs :
        /\ procs[p].pc = "cancel"
        /\ IF StillPending(procs[p].status)
           THEN requests' = [requests EXCEPT ![procs[p].swap_request].status = "cancelled"]
           ELSE UNCHANGED requests
        /\ Become(p, IdleProc)
        /\ UNCHANGED <<dutyStaff, Others>>

\* views.py lines 439-457: the user's own duty on the posted date is fetched
\* (DoesNotExist ends the view when the duty of that date is not the user's)
RequestGetRequesterDuty ==
    \E p \in Procs, user \in Staff, d \in Duties :
        /\ procs[p].pc = "idle"
        /\ Len(requests) + Cardinality(Creating) < MaxRequests
        /\ dutyStaff[d] = user
        /\ Become(p, [IdleProc EXCEPT
                        !.pc = "get_target", !.user = user,
                        !.requester_staff = user, !.requester_duty = d])
        /\ UNCHANGED <<dutyStaff, requests, Others>>

\* views.py line 458: the target duty is fetched by the posted id
RequestGetTargetDuty ==
    \E p \in Procs, t \in Duties :
        /\ procs[p].pc = "get_target"
        /\ Become(p, [procs[p] EXCEPT
                        !.pc = "check", !.target_duty = t,
                        !.target_staff = dutyStaff[t]])
        /\ UNCHANGED <<dutyStaff, requests, Others>>

\* views.py lines 466-469: a pending request with this requester_duty exists
ExistingRequest(rs, d) ==
    \E i \in 1..Len(rs) : rs[i].requester_duty = d /\ rs[i].status = "pending"

\* views.py lines 466-473: the existence check; the view ends when it finds
\* a pending request
RequestCheck ==
    \E p \in Procs :
        /\ procs[p].pc = "check"
        /\ IF ExistingRequest(requests, procs[p].requester_duty)
           THEN Become(p, IdleProc)
           ELSE Become(p, [procs[p] EXCEPT !.pc = "create"])
        /\ UNCHANGED <<dutyStaff, requests, Others>>

\* views.py lines 476-481: the request row is created, pending
RequestCreate ==
    \E p \in Procs :
        /\ procs[p].pc = "create"
        /\ requests' = Append(requests,
                [requester |-> procs[p].requester_staff,
                 target |-> procs[p].target_staff,
                 requester_duty |-> procs[p].requester_duty,
                 target_duty |-> procs[p].target_duty,
                 status |-> "pending"])
        /\ Become(p, IdleProc)
        /\ UNCHANGED <<dutyStaff, Others>>

\* chunk_text is not being stepped
NoChunking ==
    /\ input = None
    /\ text = <<>>
    /\ size = CHUNK_SIZE
    /\ overlap = CHUNK_OVERLAP
    /\ start = 0
    /\ chunks = <<>>
    /\ wins = <<>>
    /\ cpc = "done"
    /\ out = <<>>

\* Before any command: no knowledge base, nothing being stepped
Init ==
    /\ EmptyDisk
    /\ NoCommand
    /\ NoChunking
    /\ NoContext
    /\ NoSummary
    /\ NoDuty

Next ==
    \/ StartBuild
    \/ EmbedBatchOk
    \/ EmbedBatchFail
    \/ WriteIndexOk
    \/ WriteIndexFail
    \/ WriteMetaOk
    \/ WriteMetaFail
    \/ WriteInfoOk
    \/ WriteInfoFail
    \/ Search

Spec == Init /\ [][Next]_vars

\* A call of build_context, at line 184
InitContext ==
    /\ hits \in HitSeqs
    /\ max_chars \in 0..MaxChars
    /\ picked = <<>>
    /\ total = 0
    /\ blocks = <<>>
    /\ bpc = "pick"
    /\ context = <<>>
    /\ NoChunking
    /\ EmptyDisk
    /\ NoCommand
    /\ NoSummary
    /\ NoDuty

NextContext == PickHit \/ PackBlocks

SpecContext == InitContext /\ [][NextContext]_vars

\* A summarize run about to start, on a knowledge base of 0..MaxCount stored
\* chunks or on a directory that holds none
InitSum ==
    /\ \/ EmptyDisk
       \/ /\ kbDir = TRUE
          /\ \E c \in 0..MaxCount :
                /\ indexFile = SumKb(c).index
                /\ metaFile = SumKb(c).meta
                /\ infoFile = SumKb(c).info
    /\ NoChunking
    /\ NoCommand
    /\ NoContext
    /\ NoSummary
    /\ NoDuty

NextSum == SumStart \/ MapOk \/ MapFail \/ MapEnd \/ ReduceOk \/ ReduceFail

SpecSum == InitSum /\ [][NextSum]_vars

\* The schedule has been generated; no swap has been asked for yet
InitDuty ==
    /\ NoDuty
    /\ NoChunking
    /\ EmptyDisk
    /\ NoCommand
    /\ NoContext
    /\ NoSummary

NextDuty ==
    \/ RequestGetRequesterDuty
    \/ RequestGetTargetDuty
    \/ RequestCheck
    \/ RequestCreate
    \/ HandleLoad
    \/ AcceptReadRequester
    \/ AcceptReadTarget
    \/ AcceptSaveRequesterDuty
    \/ AcceptSaveTargetDuty
    \/ AcceptSaveStatus
    \/ Reject
    \/ CancelLoad
    \/ Cancel

SpecDuty == InitDuty /\ [][NextDuty]_vars

(***************************************************************************)
(* Properties of chunk_text, checked under SpecChunk.                      *)
(***************************************************************************)
n == Len(text)

\* The input counts as empty: None, "" or whitespace only
Blank(inp) == inp = None \/ \A i \in 1..Len(inp) : IsSpace(inp[i])

\* C5: chunk_text terminates: every loop iteration moves start forward by at
\* least 1 (also when overlap >= cut - start), so the loop runs at most
\* len(text) iterations.
C5_Terminates ==
    /\ [](Len(wins) <= n)
    /\ [][wins' # wins => start' >= start + 1]_vars

\* C5 witness: an iteration whose overlap reaches back to its own start or
\* before it, after which the scan went on from start + 1.
C5_Witness ==
    \E i \in 1..(Len(wins) - 1) :
        /\ wins[i].cut - overlap <= wins[i].start
        /\ wins[i + 1].start = wins[i].start + 1

\* C6: the chunk windows cover the text: the first starts at 0, each next one
\* starts at or before the cut of the one before it, the last ends at
\* len(text), and every position lies in some window.
C6_Covers ==
    (cpc = "done" /\ n > 0) =>
        /\ wins # <<>>
        /\ wins[1].start = 0
        /\ wins[Len(wins)].cut = n
        /\ \A i \in 1..(Len(wins) - 1) : wins[i + 1].start <= wins[i].cut
        /\ \A p \in 0..(n - 1) :
              \E i \in 1..Len(wins) : wins[i].start <= p /\ p < wins[i].cut

\* C6 witness: a finished call without overlap whose first window was cut at
\* a boundary marker before the hard limit, followed by further windows.
C6_Witness ==
    /\ cpc = "done"
    /\ overlap = 0
    /\ Len(wins) >= 2
    /\ wins[1].sep # 0
    /\ wins[1].cut < wins[1].start + size

\* C7 (as claimed): a text whose stripped length is less than size comes back
\* as exactly one chunk.
C7_SingleChunk ==
    (cpc = "done" /\ n > 0 /\ n < size) => Len(out) = 1

\* C8: chunk windows are in original order: start positions strictly
\* increase and cut positions never decrease.
C8_Ordered ==
    /\ \A i \in 1..(Len(wins) - 1) :
          /\ wins[i].start < wins[i + 1].start
          /\ wins[i].cut <= wins[i + 1].cut
    /\ (cpc = "loop" /\ wins # <<>>) => wins[Len(wins)].start < start

\* C8 witness: a window cut at a boundary marker before the hard limit, the
\* window after it ending later, and a third window after that.
C8_Witness ==
    /\ Len(wins) >= 3
    /\ wins[1].sep # 0
    /\ wins[1].cut < wins[1].start + size
    /\ wins[1].cut < wins[2].cut

\* C9: no chunk is longer than size, and a chunk of exactly size characters
\* comes only from a window cut at start + size (the hard limit, or a marker
\* ending exactly there).
C9_AtMostSize ==
    /\ \A i \in 1..Len(chunks) :
          /\ Len(chunks[i]) <= size
          /\ Len(chunks[i]) = size => wins[i].cut = wins[i].start + size
    /\ \A i \in 1..Len(out) : Len(out[i]) <= size

\* C9 witness: a returned chunk of exactly size characters whose window was
\* cut at a boundary marker, next to a shorter one.
C9_Witness ==
    /\ cpc = "done"
    /\ \E i \in 1..Len(chunks) : Len(chunks[i]) = size /\ wins[i].sep # 0
    /\ \E i \in 1..Len(out) : Len(out[i]) < size

\* C10: the result is empty exactly when the input is None, empty or
\* whitespace only; no returned chunk is empty or starts or ends with
\* whitespace.
C10_EmptyIffBlank ==
    cpc = "done" =>
        /\ (out = <<>>) <=> Blank(input)
        /\ \A i \in 1..Len(out) :
              /\ out[i] # <<>>
              /\ ~IsSpace(out[i][1])
              /\ ~IsSpace(out[i][Len(out[i])])

\* C10 witness: a finished call on a non-blank input padded with whitespace,
\* one of whose windows held whitespace only and was dropped.
C10_Witness ==
    /\ cpc = "done"
    /\ out # <<>>
    /\ input # text
    /\ \E i \in 1..Len(chunks) : chunks[i] = <<>>

\* The boundary markers in the claimed priority order
Priority == << <<"\n", "\n">>, <<"\n">>, <<"U+3002">>, <<"U+FF01">>, <<"U+FF1F">>,
               <<".">>, <<"!">>, <<"?">> >>

\* The marker m stands at position p of the text, inside [lo, hi)
Occurs(m, p, lo, hi) ==
    /\ lo <= p
    /\ p + Len(m) <= hi
    /\ \A j \in 1..Len(m) : text[p + j] = m[j]

\* C19: every window is cut after the first marker, in the order of Priority,
\* whose last occurrence inside [start, min(start + size, n)) lies beyond
\* start + 0.6 * size, right after that occurrence; with no such marker it
\* is cut at min(start + size, n).  Stated of the window just taken, in every
\* state: each window of a call is that one once.
C19_MarkerPriority ==
    /\ SEPS = Priority
    /\ wins # <<>> =>
          LET w == wins[Len(wins)]
              e == IF w.start + size < n THEN w.start + size ELSE n
              Beyond(p) == 10 * p > 10 * w.start + 6 * size
              Last(m, p) ==
                  /\ Occurs(m, p, w.start, e)
                  /\ \A q \in (p + 1)..(e - 1) : ~Occurs(m, q, w.start, e)
              Wins(k) == \E p \in w.start..(e - 1) : Last(Priority[k], p) /\ Beyond(p)
          IN  IF w.sep = 0
              THEN /\ w.cut = e
                   /\ \A k \in 1..Len(Priority) : ~Wins(k)
              ELSE /\ Wins(w.sep)
                   /\ \A k \in 1..(w.sep - 1) : ~Wins(k)
                   /\ \E p \in w.start..(e - 1) :
                         /\ Last(Priority[w.sep], p)
                         /\ w.cut = p + Len(Priority[w.sep])

\* C19 witness: a window cut after a full stop before the hard limit, with a
\* newline in it that lies too early to count; and a later window.
C19_Witness ==
    /\ Len(wins) >= 2
    /\ wins[1].sep # 0
    /\ Priority[wins[1].sep] = <<".">>
    /\ wins[1].cut < wins[1].start + size
    /\ \E p \in 0..(wins[1].cut - 1) : Occurs(<<"\n">>, p, 0, wins[1].cut)

\* C21 (as claimed): chunking stops once a window reaches the end of the
\* text: at most one window ends at len(text), and no returned chunk is a
\* proper suffix of the chunk before it.
C21_StopsAtEnd ==
    /\ Cardinality({i \in 1..Len(wins) : wins[i].cut = n}) <= 1
    /\ cpc = "done" =>
          \A i \in 1..(Len(out) - 1) :
              ~(/\ Len(out[i + 1]) < Len(out[i])
                /\ out[i + 1] = SubSeq(out[i], Len(out[i]) - Len(out[i + 1]) + 1,
                                       Len(out[i])))

(***************************************************************************)
(* Properties of the knowledge base on disk, checked under Spec.           *)
(***************************************************************************)
\* The three files hold a complete knowledge base
Complete(kb) == kb[1].st = "ok" /\ kb[2].st = "ok" /\ kb[3].st = "ok"

\* C1: after every successful build the index, the metadata file and the
\* info record agree: as many index rows as metadata records as info.count,
\* and row i of the index is the embedding of the text of record i.
C1_Consistent ==
    pc = "done" =>
        /\ Complete(<<indexFile, metaFile, infoFile>>)
        /\ Len(indexFile.data) = Len(metaFile.data)
        /\ infoFile.data[1].count = Len(metaFile.data)
        /\ \A i \in 1..Len(metaFile.data) :
              indexFile.data[i] = normalize(<<Embedding(metaFile.data[i].text)>>)[1]

\* C1 witness: a finished rebuild over a complete knowledge base of another
\* size, its texts embedded in three batches or more.
C1_Witness ==
    /\ pc = "done"
    /\ Complete(oldKb)
    /\ Len(oldKb[1].data) # Len(indexFile.data)
    /\ Len(indexFile.data) > 2 * EMBED_BATCH

\* C2 (as claimed): a build that fails leaves a knowledge base that existed
\* before it unchanged in all three files.
C2_AllOrNothing ==
    (pc = "failed" /\ Complete(oldKb)) => <<indexFile, metaFile, infoFile>> = oldKb

\* C3 (as claimed): a knowledge base whose index row count differs from its
\* metadata record count is refused: search_kb never returns hits from one.
C3_RefusesInconsistent ==
    searchOut.status = "hits" => searchOut.rows = searchOut.recs

\* C4 (as claimed): no two metadata records of one build carry the same id.
C4_UniqueIds ==
    /\ \A i, j \in 1..Len(metas) : i # j => metas[i].id # metas[j].id
    /\ \A i, j \in 1..Len(metaFile.data) :
          i # j => metaFile.data[i].meta.id # metaFile.data[j].meta.id

(***************************************************************************)
(* Properties of build_context, checked under SpecContext.                 *)
(***************************************************************************)
RECURSIVE SumLen(_)
\* The summed text lengths of a hit sequence
SumLen(hs) == IF hs = <<>> THEN 0 ELSE Len(hs[1].text) + SumLen(Tail(hs))

\* A text without its carriage returns
Sans(s) == SelectSeq(s, LAMBDA c : c # "\r")

\* C11: build_context packs greedily: the picked hits are the longest prefix
\* of the hits whose summed text lengths stay within max_chars (the hit after
\* the prefix does not fit, and nothing after it is taken), in the hits'
\* order, and every block ends with the whole text of its hit.
C11_GreedyPrefix ==
    bpc = "done" =>
        /\ Len(picked) <= Len(hits)
        /\ picked = SubSeq(hits, 1, Len(picked))
        /\ SumLen(picked) <= max_chars
        /\ Len(picked) < Len(hits) =>
              SumLen(picked) + Len(hits[Len(picked) + 1].text) > max_chars
        /\ Len(blocks) = Len(picked)
        /\ \A i \in 1..Len(picked) :
              LET b == Sans(blocks[i])
                  t == Sans(picked[i].text)
              IN  /\ Len(b) >= Len(t)
                  /\ SubSeq(b, Len(b) - Len(t) + 1, Len(b)) = t

\* C11 witness: after taking a hit, packing stopped at one that did not fit
\* although a later, shorter hit would have fitted.
C11_Witness ==
    /\ bpc = "done"
    /\ picked # <<>>
    /\ \E j \in (Len(picked) + 2)..Len(hits) :
          SumLen(picked) + Len(hits[j].text) <= max_chars

\* C12 (as claimed): the returned context string, citation headers and block
\* separators included, is no longer than max_chars.
C12_ContextBounded ==
    bpc = "done" => Len(context) <= max_chars

(***************************************************************************)
(* Properties of search_kb and embed_texts, checked under Spec.            *)
(***************************************************************************)
\* The normalized embedding of a query (line 166)
QueryVec(q) == normalize(<<Embedding(q)>>)[1]

\* C13: on a knowledge base of count chunks (count index rows, count
\* records) and with the provider answering, search_kb(query, k) raises
\* nothing and returns min(k, count) hits in descending score order, each
\* the score of a row i with the text and the metadata of record i (no row
\* twice); fewer than k only when count < k.
C13_TopK ==
    (/\ pc = "searched"
     /\ err \notin {"RuntimeError", "FileNotFoundError", "CollaboratorError"}
     /\ searchOut.rows = searchOut.recs) =>
        LET hs == searchOut.hits
            count == searchOut.rows
            qv == QueryVec(searchOut.query)
        IN  /\ searchOut.status = "hits"
            /\ count = Len(indexFile.data)
            /\ Len(hs) = (IF searchOut.k < count THEN searchOut.k ELSE count)
            /\ \A p \in 1..(Len(hs) - 1) : hs[p].score >= hs[p + 1].score
            /\ \E row \in [1..Len(hs) -> 1..count] :
                  /\ \A p, r \in 1..Len(hs) : p # r => row[p] # row[r]
                  /\ \A p \in 1..Len(hs) :
                        /\ hs[p].score = Dot(indexFile.data[row[p]], qv)
                        /\ hs[p].text = metaFile.data[row[p]].text
                        /\ hs[p].meta = metaFile.data[row[p]].meta

\* C13 witness: a search that asked for more hits than the knowledge base
\* holds and got them all, of different scores.
C13_Witness ==
    /\ pc = "searched"
    /\ searchOut.status = "hits"
    /\ searchOut.rows = searchOut.recs
    /\ searchOut.rows < searchOut.k
    /\ Len(searchOut.hits) = searchOut.rows
    /\ searchOut.hits[1].score > searchOut.hits[Len(searchOut.hits)].score

RECURSIVE Flatten(_)
\* The texts of a sequence of batches, one after the other
Flatten(bs) == IF bs = <<>> THEN <<>> ELSE bs[1] \o Flatten(Tail(bs))

\* C14: embed_texts hands the provider consecutive batches of at most
\* EMBED_BATCH texts in input order, every text in exactly one batch, and
\* row i of the matrix it returns is the embedding of texts[i].
C14_Batches ==
    pc \in {"embed", "write_index", "write_meta", "write_info"} =>
        /\ \A b \in 1..Len(sent) : Len(sent[b]) >= 1 /\ Len(sent[b]) <= EMBED_BATCH
        /\ Len(Flatten(sent)) <= Len(texts)
        /\ Flatten(sent) = SubSeq(texts, 1, Len(Flatten(sent)))
        /\ pc # "embed" =>
              /\ Flatten(sent) = texts
              /\ Len(emb) = Len(texts)
              /\ \A i \in 1..Len(texts) : emb[i] = QueryVec(texts[i])

\* C14 witness: embed_texts has returned after three batches or more, the
\* last of them smaller than EMBED_BATCH.
C14_Witness ==
    /\ pc = "write_index"
    /\ Len(sent) >= 3
    /\ Len(sent[Len(sent)]) < EMBED_BATCH

\* The name a metadata record carries for a file of the source directory
FileName(f) == f.stem \o <<f.suffix>>

\* C17 (as claimed): a build that finds no eligible .txt file fails before
\* any write: the knowledge-base directory and its three files are as they
\* were, and the provider was not called.
C17_NoFilesNoWrites ==
    (pc = "failed" /\ err = "SystemExit") =>
        /\ kbDir = oldDir
        /\ <<indexFile, metaFile, infoFile>> = oldKb
        /\ sent = <<>>

\* C18 (as claimed): a file that fails to decode is skipped: no record of the
\* scan comes from it, and every other .txt file has its records.
C18_SkipsUndecodable ==
    pc = "embed" =>
        \A f \in srcDir : f.suffix = ".txt" =>
            (Decodes(f) <=> \E i \in 1..Len(metas) : metas[i].file = FileName(f))

(***************************************************************************)
(* Properties of summarize_corpus, checked under SpecSum.                  *)
(***************************************************************************)
\* The map calls made so far
MapCalls == SelectSeq(calls, LAMBDA c : c.kind = "map")

\* The number of batches of SUM_BATCH that m chunks make
Batches(m) == (m + SUM_BATCH - 1) \div SUM_BATCH

\* C15: a summarize run moves idle -> mapping -> reducing -> done, leaving
\* that line only by failing: every map call comes before the reduce call,
\* the reduce call is made once, after every batch has been summarized, and
\* is the last call of the run.
C15_Linear ==
    /\ [](/\ \A i \in 1..Len(calls) : calls[i].kind = "reduce" => i = Len(calls)
          /\ (calls # <<>> /\ calls[Len(calls)].kind = "reduce") =>
                /\ sumPc \in {"done", "failed"}
                /\ Len(summaries) = Batches(Len(sumChunks))
                /\ Len(MapCalls) = Len(summaries)
          /\ sumPc = "done" => (calls # <<>> /\ calls[Len(calls)].kind = "reduce"))
    /\ [][sumPc' # sumPc =>
            \/ sumPc = "idle" /\ sumPc' \in {"mapping", "failed"}
            \/ sumPc = "mapping" /\ sumPc' \in {"reducing", "failed"}
            \/ sumPc = "reducing" /\ sumPc' \in {"done", "failed"}]_vars

\* C15 witness: a finished run of three map calls or more and the reduce call.
C15_Witness ==
    /\ sumPc = "done"
    /\ Len(calls) >= 4
    /\ report # None

\* C16 (as claimed): when a map call fails the run fails, no reduce call is
\* made, nothing is reported, and the error names the batch that failed.
C16_MapFailureNamesBatch ==
    (sumPc = "failed" /\ calls # <<>> /\ calls[Len(calls)].kind = "map") =>
        /\ \A i \in 1..Len(calls) : calls[i].kind = "map"
        /\ report = None
        /\ "batch" \in DOMAIN sumErr
        /\ sumErr.batch = Len(calls) - 1

\* C20: the map phase covers the first min(max_docs, count) stored chunks in
\* storage order, in consecutive batches of SUM_BATCH (the last one may be
\* smaller), one call per batch, and the summaries are the replies in batch
\* order.
C20_MapBatches ==
    sumPc \in {"mapping", "reducing", "done"} =>
        LET count == Len(metaFile.data)
            m == IF max_docs < count THEN max_docs ELSE count
            SizeOf(b) == IF b * SUM_BATCH <= m THEN SUM_BATCH ELSE m - (b - 1) * SUM_BATCH
        IN  /\ Len(MapCalls) <= Batches(m)
            /\ sumPc # "mapping" => Len(MapCalls) = Batches(m)
            /\ Len(summaries) = Len(MapCalls)
            /\ \A b \in 1..Len(MapCalls) :
                  /\ Len(MapCalls[b].batch) = SizeOf(b)
                  /\ SizeOf(b) >= 1
                  /\ \A j \in 1..SizeOf(b) :
                        MapCalls[b].batch[j] = metaFile.data[(b - 1) * SUM_BATCH + j].text
                  /\ summaries[b] = strip(ChatReply(MapCalls[b].prompt))

\* C20 witness: a finished run over fewer chunks than are stored, max_docs no
\* multiple of SUM_BATCH, in three batches.
C20_Witness ==
    /\ sumPc = "done"
    /\ max_docs < Len(metaFile.data)
    /\ max_docs % SUM_BATCH # 0
    /\ Len(MapCalls) = 3
    /\ Len(MapCalls[3].batch) < SUM_BATCH

(***************************************************************************)
(* Properties of the duty swaps, checked under SpecDuty.                   *)
(***************************************************************************)
\* C22 (as claimed): a swap request exchanges the staff of its duties at most
\* once: a status of accepted, rejected or cancelled never changes again, and
\* a call changes a duty assignment only while its request is still pending
\* in the database, however the calls for one request interleave.
C22_SwapsOnce ==
    [][/\ \A i \in 1..Len(requests) :
             requests[i].status \in Final => requests'[i].status = requests[i].status
       /\ \A p \in Procs :
             (procs'[p] # procs[p] /\ dutyStaff' # dutyStaff)
                => requests[procs[p].swap_request].status = "pending"]_vars

\* C23 (as claimed): no requester duty has more than one pending swap
\* request.
C23_OnePending ==
    \A d \in Duties :
        Cardinality({i \in 1..Len(requests) :
            requests[i].requester_duty = d /\ requests[i].status = "pending"}) <= 1

\* C24 (as claimed): when a pending request becomes accepted, its requester
\* duty is staffed by its target and its target duty by its requester.
C24_AcceptExchanges ==
    [][\A i \in 1..Len(requests) :
          (requests[i].status = "pending" /\ requests'[i].status = "accepted") =>
              /\ dutyStaff'[requests[i].requester_duty] = requests[i].target
              /\ dutyStaff'[requests[i].target_duty] = requests[i].requester]_vars

====
